---- MODULE Spec2Model ----
(***************************************************************************)
(* Model of Core8086 (mega866/examples/example_8086/core_8086.py): the     *)
(* reset sequence of the constructor, the run loop and the transfer        *)
(* routine _perform_read_write, driving a GpioController.                  *)
(*                                                                         *)
(* A gpio bitmask is a Python integer of up to 160 bits.  It is modelled   *)
(* as the set of its set bit positions (bit b is set  <=>  b \in mask),    *)
(* so that `1 << (x - 1)` is {x - 1}, `|` is \cup and `m & bit` is a       *)
(* membership test.  Pin lists are modelled as sets of pin numbers.        *)
(***************************************************************************)
EXTENDS Integers, Sequences, FiniteSets, TLC

(* ------------------------------ bounds -------------------------------- *)

\* run() loops for ever and cycle_num grows without bound: a tick starts
\* only while cycle_num is below this.
MaxCycleNum == 6

(* ----------------------------- pin map -------------------------------- *)

\* Mega-866 pin number -> address/data line number of the 8086
_ADDRESS_PINS ==
    (31 :> 0)  @@ (27 :> 1)  @@ (25 :> 2)  @@ (23 :> 3)  @@
    (75 :> 4)  @@ (73 :> 5)  @@ (71 :> 6)  @@ (69 :> 7)  @@
    (67 :> 8)  @@ (9 :> 9)   @@ (7 :> 10)  @@ (5 :> 11)  @@
    (3 :> 12)  @@ (1 :> 13)  @@ (55 :> 14) @@ (53 :> 15) @@
    (57 :> 16) @@ (59 :> 17) @@ (61 :> 18) @@ (63 :> 19)

_DATA_PINS == {31, 27, 25, 23, 75, 73, 71, 69, 67, 9, 7, 5, 3, 1, 55, 53}

_PIN_BHE == 65
_PIN_RD == 13
_PIN_READY == 41
_PIN_INTR == 39
_PIN_TEST == 37
_PIN_NMI == 35
_PIN_RESET == 45
_PIN_CLK == 43
_PIN_VCC == 49
_PIN_GND1 == 51
_PIN_GND2 == 47
_PIN_MN_MX == 11
_PIN_M_IO == 21
_PIN_WR == 19
_PIN_ALE == 29
_PIN_HOLD == 15

\* Number of pins of the Mega-866 ("Mega-866 pin numbers 1-160")
NumEarthPins == 160

\* gpio_controller.all_earth_pins
all_earth_pins == 1..NumEarthPins

\* The pins that are always driven, never high-z
AlwaysDrivenPins ==
    {_PIN_READY, _PIN_INTR, _PIN_TEST, _PIN_NMI, _PIN_RESET, _PIN_CLK,
     _PIN_MN_MX, _PIN_HOLD}

_tristate_pins == all_earth_pins \ AlwaysDrivenPins

_ALWAYS_HIGH_PINS == {_PIN_MN_MX, _PIN_READY}

\* The codec is exercised on the numbers that have at most this many bits
\* set, or at most this many bits clear.
MaxBitsVaried == 2

(* ------------------------------ codec --------------------------------- *)

\* The bit of a pin without the shift by one: 1 << x
_pin_unshifted(x) == {x}

\* 1 << (x - 1)
_pin(x) == {x - 1}

\* OR of the bits of the pins of pin_list
_pins(pin_list) == UNION {_pin(p) : p \in pin_list}

\* input_pins & (1 << (k - 1)), as a truth value
BitSet(input_pins, k) == (k - 1) \in input_pins

RECURSIVE SumPow2(_)
\* OR of 1 << v over the distinct line numbers v of lines
SumPow2(lines) ==
    IF lines = {} THEN 0
    ELSE LET v == CHOOSE x \in lines : TRUE
         IN  2^v + SumPow2(lines \ {v})

\* num & (1 << v), as a truth value (num >= 0)
NumBit(num, v) == (num \div 2^v) % 2 = 1

\* The address decoder with the v < 16 test of the data decoder
_get_address_pins_low16(input_pins) ==
    SumPow2({_ADDRESS_PINS[k] :
               k \in {p \in DOMAIN _ADDRESS_PINS :
                        _ADDRESS_PINS[p] < 16 /\ BitSet(input_pins, p)}})

_get_address_pins(input_pins) ==
    SumPow2({_ADDRESS_PINS[k] : k \in {p \in DOMAIN _ADDRESS_PINS : BitSet(input_pins, p)}})

_get_data_pins(input_pins) ==
    SumPow2({_ADDRESS_PINS[k] :
               k \in {p \in DOMAIN _ADDRESS_PINS :
                        _ADDRESS_PINS[p] < 16 /\ BitSet(input_pins, p)}})

\* The assertion of _number_to_data_pins_high
NumberFits(num) == num <= 65535

\* The encoder testing bit v + 1 for line v
_number_to_data_pins_high_shifted(num) ==
    {k \in DOMAIN _ADDRESS_PINS : NumBit(num, _ADDRESS_PINS[k] + 1)}

\* The pin list of _number_to_data_pins_high, once the assertion has passed
_number_to_data_pins_high(num) ==
    {k \in DOMAIN _ADDRESS_PINS : NumBit(num, _ADDRESS_PINS[k])}

(* ------------------------ decode of a bus cycle ------------------------ *)

\* The ALE test with the level inverted
AleAsserted_inverted(pins_read) == ~ BitSet(pins_read, _PIN_ALE)

\* read_pins & self._pin(self._PIN_ALE)
AleAsserted(pins_read) == BitSet(pins_read, _PIN_ALE)

\* The RD test with the level inverted
RdLow_inverted(pins_read) == BitSet(pins_read, _PIN_RD)

\* read_pins & self._pin(self._PIN_RD) == 0
RdLow(pins_read) == ~ BitSet(pins_read, _PIN_RD)

DecodeSpace(pins_read) == IF BitSet(pins_read, _PIN_M_IO) THEN "MEMORY" ELSE "IO"

\* bhe = (read_pins & self._pin(self._PIN_BHE)) > 0
Bhe(pins_read) == BitSet(pins_read, _PIN_BHE)

\* a0 = address & 1 > 0
A0(addr) == addr % 2 > 0

\* The width table with the two byte lanes exchanged
DecodeWidth_swapped(bhe, a0) ==
    IF ~bhe /\ ~a0 THEN "WHOLE_WORD"
    ELSE IF ~bhe /\ a0 THEN "LOWER_BYTE"
    ELSE IF bhe /\ ~a0 THEN "UPPER_BYTE"
    ELSE "INVALID"

DecodeWidth(bhe, a0) ==
    IF ~bhe /\ ~a0 THEN "WHOLE_WORD"
    ELSE IF ~bhe /\ a0 THEN "UPPER_BYTE"
    ELSE IF bhe /\ ~a0 THEN "LOWER_BYTE"
    ELSE "INVALID"

(* --------------------------- bitmasks written -------------------------- *)

\* self._pins(*self._ALWAYS_HIGH_PINS)
ClockLowMask == _pins(_ALWAYS_HIGH_PINS)

\* The clock-high bitmask without the clock pin
ClockHighMask_low == _pins(_ALWAYS_HIGH_PINS)

\* self._pins(*self._ALWAYS_HIGH_PINS, self._PIN_CLK)
ClockHighMask == _pins(_ALWAYS_HIGH_PINS \cup {_PIN_CLK})

\* self._pins(*self._ALWAYS_HIGH_PINS, self._PIN_RESET)
ResetLowMask == _pins(_ALWAYS_HIGH_PINS \cup {_PIN_RESET})

\* self._pins(*self._ALWAYS_HIGH_PINS, self._PIN_RESET, self._PIN_CLK)
ResetHighMask == _pins(_ALWAYS_HIGH_PINS \cup {_PIN_RESET, _PIN_CLK})

\* The last write of the constructor leaving the clock low
ResetReleaseMask_low == _pins(_ALWAYS_HIGH_PINS)

\* The last write of the constructor keeping reset asserted
ResetReleaseMask_held == _pins(_ALWAYS_HIGH_PINS \cup {_PIN_RESET, _PIN_CLK})

\* The last write of the constructor
ResetReleaseMask == _pins(_ALWAYS_HIGH_PINS \cup {_PIN_CLK})

\* A reset loop of two rounds
ResetLoopCount_short == 5 - 3

\* range(5)
ResetLoopCount == 5

\* self._pins(*self._tristate_pins)
TristateDefaultMask == _pins(_tristate_pins)

\* The release leaving the data pins in tri-state
ReadReleaseMask_none == _pins(_tristate_pins)

\* The release taking all 20 address/data pins out of tri-state
ReadReleaseMask_all == _pins(_tristate_pins \ DOMAIN _ADDRESS_PINS)

\* self._pins(*(self._tristate_pins - self._DATA_PINS))
ReadReleaseMask == _pins(_tristate_pins \ _DATA_PINS)

\* The restore leaving the data pins out of tri-state
ReadRestoreMask_missing == _pins(_tristate_pins \ _DATA_PINS)

\* The tri-state set written when a Read transfer ends
ReadRestoreMask == _pins(_tristate_pins)

\* self._pins(*self._ALWAYS_HIGH_PINS, self._PIN_CLK, *data_pins)
DataHighMask(pin_list) == _pins(_ALWAYS_HIGH_PINS \cup {_PIN_CLK} \cup pin_list)

\* The data bitmask without the always-high pins
DataLowMask_bare(pin_list) == _pins(pin_list)

\* self._pins(*self._ALWAYS_HIGH_PINS, *data_pins)
DataLowMask(pin_list) == _pins(_ALWAYS_HIGH_PINS \cup pin_list)

(* ------------------------------ backend -------------------------------- *)

RECURSIVE BitOr(_, _)
\* a | b on naturals
BitOr(a, b) ==
    IF a = 0 THEN b
    ELSE IF b = 0 THEN a
    ELSE (IF a % 2 = 1 \/ b % 2 = 1 THEN 1 ELSE 0) + 2 * BitOr(a \div 2, b \div 2)

\* BasicMemController.memory
memory ==
    (31744 :> 144) @@ (31745 :> 235) @@ (31746 :> 253) @@
    (1048560 :> 234) @@ (1048561 :> 0) @@ (1048562 :> 124) @@
    (1048563 :> 0) @@ (1048564 :> 0)

\* self.memory.get(a, 0)
MemoryGet(a) == IF a \in DOMAIN memory THEN memory[a] ELSE 0

\* BasicMemController.read_memory
read_memory(addr, width) ==
    IF width = "UPPER_BYTE" \/ width = "LOWER_BYTE"
    THEN MemoryGet(addr)
    ELSE BitOr(MemoryGet(addr), MemoryGet(addr + 1) * 256)

\* BasicMemController.read_io
read_io(addr, width) == 0

\* The memory controllers a Core8086 is constructed with: the example's
\* BasicMemController, or another one, whose reads return any of OtherVals
MemControllers == {"BasicMemController", "Other"}

OtherVals == {0, 144, 234, 4660, 65535, 65536}

\* The values a read of the memory controller mc can return
BackendRead(mc, space, addr, width) ==
    IF mc = "BasicMemController"
    THEN {IF space = "MEMORY" THEN read_memory(addr, width) ELSE read_io(addr, width)}
    ELSE OtherVals

(* --------------------- levels sampled from the pins -------------------- *)

\* The levels of the 20 address/data pins when the 8086 drives a on them
AddrToBits(a) ==
    {k - 1 : k \in {p \in DOMAIN _ADDRESS_PINS : NumBit(a, _ADDRESS_PINS[p])}}

\* The addresses the 8086 puts on the bus
AddrVals == {0, 1, 4096, 31744, 31745, 1048560, 1048575}

\* What the address/data pins carry at the second sample of a cycle, when
\* not still the address
LaterVals == {4661}

\* io_r() at the head of a tick: the pins this side drives read back, the
\* address/data pins and ALE are the 8086's
Samples1(driven) ==
    {driven \cup AddrToBits(a) \cup c : a \in AddrVals, c \in SUBSET _pins({_PIN_ALE})}

\* io_r() after the clock toggle of a cycle: the strobes, M/IO, BHE and ALE
\* are the 8086's
Samples2(driven, addr) ==
    {driven \cup AddrToBits(a) \cup c :
        a \in {addr} \cup LaterVals,
        c \in SUBSET _pins({_PIN_RD, _PIN_WR, _PIN_M_IO, _PIN_BHE, _PIN_ALE})}

(* ------------------------------- state --------------------------------- *)

VARIABLES
    pc,             \* position in __init__, run or _perform_read_write
    outputs,        \* the bitmask of the controller's last io_w
    tristate,       \* the bitmask of the controller's last io_tri
    power,          \* the controller's supply configuration
    i,              \* loop variable of the reset loop
    cycle_num,
    read_pins,
    address,
    io_dir,
    io_space,
    io_width,
    data,
    data_pins,
    error,          \* the exception that ended the run, or "none"
    mem_controller,
    log             \* the controller and backend calls of the reset sequence,
                    \* then of the current (at the loop head: the last) tick

vars == <<pc, outputs, tristate, power, i, cycle_num, read_pins, address,
          io_dir, io_space, io_width, data, data_pins, error, mem_controller, log>>

Ev(op, mask, addr, width, val) ==
    [op |-> op, mask |-> mask, tri |-> tristate, addr |-> addr, width |-> width, val |-> val]

\* controller.io_w(mask)
io_w(mask) == Ev("io_w", mask, 0, "", 0)

\* controller.io_r() returning mask
io_r(mask) == Ev("io_r", mask, 0, "", 0)

\* controller.io_tri(mask)
io_tri(mask) == Ev("io_tri", mask, 0, "", 0)

locals == <<read_pins, address, io_dir, io_space, io_width, data, data_pins>>

Init ==
    /\ pc = "new"
    /\ outputs = {}
    /\ tristate = {}
    /\ power = [volt |-> 0, vdd |-> {}, gnd |-> {}, en |-> FALSE]
    /\ i = 0
    /\ cycle_num = 0
    /\ read_pins = {}
    /\ address = 0
    /\ io_dir = "NONE"
    /\ io_space = "NONE"
    /\ io_width = "NONE"
    /\ data = 0
    /\ data_pins = {}
    /\ error = "none"
    /\ mem_controller \in MemControllers
    /\ log = <<>>

(* ----------------------------- __init__ -------------------------------- *)

\* controller.init(); controller.io_w(0)
init_outputs_low ==
    /\ pc = "new"
    /\ outputs' = {}
    /\ log' = Append(log, io_w({}))
    /\ pc' = "init_tri"
    /\ UNCHANGED <<tristate, power, i, cycle_num, locals, error, mem_controller>>

init_tristate ==
    /\ pc = "init_tri"
    /\ tristate' = TristateDefaultMask
    /\ log' = Append(log, io_tri(TristateDefaultMask))
    /\ pc' = "init_power"
    /\ UNCHANGED <<outputs, power, i, cycle_num, locals, error, mem_controller>>

\* vdd_volt(3), vdd_pins, gnd_pins, vdd_en
init_power ==
    /\ pc = "init_power"
    /\ power' = [volt |-> 3, vdd |-> _pins({_PIN_VCC}),
                 gnd |-> _pins({_PIN_GND1, _PIN_GND2}), en |-> TRUE]
    /\ pc' = "init_clk_high"
    /\ UNCHANGED <<outputs, tristate, i, cycle_num, locals, error, mem_controller, log>>

\* One io_w of the constructor
InitWrite(from, mask, to) ==
    /\ pc = from
    /\ outputs' = mask
    /\ log' = Append(log, io_w(mask))
    /\ pc' = to
    /\ UNCHANGED <<tristate, power, cycle_num, locals, error, mem_controller>>

init_clk_high == InitWrite("init_clk_high", ClockHighMask, "init_clk_low") /\ UNCHANGED i

init_clk_low == InitWrite("init_clk_low", ClockLowMask, "init_reset") /\ UNCHANGED i

init_reset_assert == InitWrite("init_reset", ResetLowMask, "init_loop") /\ i' = 0

\* for i in range(5): first write of the body
init_loop_high ==
    /\ i < ResetLoopCount
    /\ InitWrite("init_loop", ResetHighMask, "init_loop_low")
    /\ UNCHANGED i

\* second write of the body
init_loop_low == InitWrite("init_loop_low", ResetLowMask, "init_loop") /\ i' = i + 1

\* the loop is over: the write after it
init_reset_high ==
    /\ i >= ResetLoopCount
    /\ InitWrite("init_loop", ResetHighMask, "init_release")
    /\ UNCHANGED i

\* the last write; then the fields are stored and the constructor returns
init_reset_release ==
    InitWrite("init_release", ResetReleaseMask, "constructed") /\ UNCHANGED i

(* -------------------------------- run ---------------------------------- *)

\* run() is called: cycle_num = 0
run_enter ==
    /\ pc = "constructed"
    /\ cycle_num' = 0
    /\ log' = <<>>
    /\ pc' = "loop_head"
    /\ UNCHANGED <<outputs, tristate, power, i, locals, error, mem_controller>>

\* while True: cycle_num += 1; io_w(always high)
tick_clock_low ==
    /\ pc = "loop_head"
    /\ cycle_num < MaxCycleNum
    /\ cycle_num' = cycle_num + 1
    /\ outputs' = ClockLowMask
    /\ log' = <<io_w(ClockLowMask)>>
    /\ pc' = "tick_sample"
    /\ UNCHANGED <<tristate, power, i, locals, error, mem_controller>>

\* read_pins = io_r(); address = _get_address_pins(read_pins)
tick_sample ==
    /\ pc = "tick_sample"
    /\ \E s \in Samples1(outputs) :
          /\ read_pins' = s
          /\ address' = _get_address_pins(s)
          /\ log' = Append(log, io_r(s))
    /\ pc' = "tick_ale"
    /\ UNCHANGED <<outputs, tristate, power, i, cycle_num, io_dir, io_space, io_width,
                   data, data_pins, error, mem_controller>>

\* else branch of the ALE test: idle tick
tick_idle ==
    /\ pc = "tick_ale"
    /\ ~ AleAsserted(read_pins)
    /\ outputs' = ClockHighMask
    /\ log' = Append(log, io_w(ClockHighMask))
    /\ pc' = "loop_head"
    /\ UNCHANGED <<tristate, power, i, cycle_num, locals, error, mem_controller>>

\* ALE high: clock high, clock low
cycle_begin ==
    /\ pc = "tick_ale"
    /\ AleAsserted(read_pins)
    /\ outputs' = ClockLowMask
    /\ log' = log \o <<io_w(ClockHighMask), io_w(ClockLowMask)>>
    /\ pc' = "cycle_sample"
    /\ UNCHANGED <<tristate, power, i, cycle_num, locals, error, mem_controller>>

\* The second sample of a cycle, decoding the address again from it
cycle_sample_relatch ==
    /\ pc = "cycle_sample"
    /\ cycle_num' = cycle_num + 1
    /\ \E s \in Samples2(outputs, address) :
          /\ read_pins' = s
          /\ address' = _get_address_pins(s)
          /\ log' = Append(log, io_r(s))
    /\ pc' = "decode_dir"
    /\ UNCHANGED <<outputs, tristate, power, i, io_dir, io_space, io_width,
                   data, data_pins, error, mem_controller>>

\* cycle_num += 1; read_pins = io_r()
cycle_sample ==
    /\ pc = "cycle_sample"
    /\ cycle_num' = cycle_num + 1
    /\ \E s \in Samples2(outputs, address) :
          /\ read_pins' = s
          /\ log' = Append(log, io_r(s))
    /\ pc' = "decode_dir"
    /\ UNCHANGED <<outputs, tristate, power, i, address, io_dir, io_space, io_width,
                   data, data_pins, error, mem_controller>>

\* if read_pins & _pin(_PIN_RD) == 0: io_dir = READ
decode_read ==
    /\ pc = "decode_dir"
    /\ RdLow(read_pins)
    /\ io_dir' = "READ"
    /\ pc' = "decode_space"
    /\ UNCHANGED <<outputs, tristate, power, i, cycle_num, read_pins, address, io_space,
                   io_width, data, data_pins, error, mem_controller, log>>

\* elif read_pins & self._pin(self.self._PIN_WR) == 0: a Core8086 has no
\* attribute `self`, so evaluating the condition raises AttributeError and
\* neither the WRITE branch nor the else branch is taken
decode_not_read ==
    /\ pc = "decode_dir"
    /\ ~ RdLow(read_pins)
    /\ error' = "AttributeError"
    /\ pc' = "raised"
    /\ UNCHANGED <<outputs, tristate, power, i, cycle_num, locals, mem_controller, log>>

decode_space ==
    /\ pc = "decode_space"
    /\ io_space' = DecodeSpace(read_pins)
    /\ pc' = "decode_width"
    /\ UNCHANGED <<outputs, tristate, power, i, cycle_num, read_pins, address, io_dir,
                   io_width, data, data_pins, error, mem_controller, log>>

\* one of the three widths
decode_width ==
    /\ pc = "decode_width"
    /\ DecodeWidth(Bhe(read_pins), A0(address)) # "INVALID"
    /\ io_width' = DecodeWidth(Bhe(read_pins), A0(address))
    /\ pc' = "cycle_clock_high"
    /\ UNCHANGED <<outputs, tristate, power, i, cycle_num, read_pins, address, io_dir,
                   io_space, data, data_pins, error, mem_controller, log>>

\* "Invalid state!": return
decode_width_invalid ==
    /\ pc = "decode_width"
    /\ DecodeWidth(Bhe(read_pins), A0(address)) = "INVALID"
    /\ pc' = "returned"
    /\ UNCHANGED <<outputs, tristate, power, i, cycle_num, locals, error, mem_controller, log>>

\* io_w(clock high); cycle_num += 1; call _perform_read_write
cycle_clock_high ==
    /\ pc = "cycle_clock_high"
    /\ outputs' = ClockHighMask
    /\ log' = Append(log, io_w(ClockHighMask))
    /\ cycle_num' = cycle_num + 1
    /\ pc' = "prw_release"
    /\ UNCHANGED <<tristate, power, i, locals, error, mem_controller>>

(* ------------------------ _perform_read_write -------------------------- *)
\* Only the READ branch: io_dir is only ever READ when the call is reached.

prw_release ==
    /\ pc = "prw_release"
    /\ io_dir = "READ"
    /\ tristate' = ReadReleaseMask
    /\ log' = Append(log, io_tri(ReadReleaseMask))
    /\ pc' = "prw_query"
    /\ UNCHANGED <<outputs, power, i, cycle_num, locals, error, mem_controller>>

\* data = mem_controller.read_memory / read_io (address, width)
prw_query ==
    /\ pc = "prw_query"
    /\ \E v \in BackendRead(mem_controller, io_space, address, io_width) :
          /\ data' = v
          /\ log' = Append(log, Ev(IF io_space = "MEMORY" THEN "read_memory" ELSE "read_io",
                                   {}, address, io_width, v))
    /\ pc' = "prw_encode"
    /\ UNCHANGED <<outputs, tristate, power, i, cycle_num, read_pins, address, io_dir,
                   io_space, io_width, data_pins, error, mem_controller>>

\* data_pins = _number_to_data_pins_high(data)
prw_encode ==
    /\ pc = "prw_encode"
    /\ NumberFits(data)
    /\ data_pins' = _number_to_data_pins_high(data)
    /\ pc' = "prw_w1"
    /\ UNCHANGED <<outputs, tristate, power, i, cycle_num, read_pins, address, io_dir,
                   io_space, io_width, data, error, mem_controller, log>>

\* assert num <= 65535 fails
prw_encode_fails ==
    /\ pc = "prw_encode"
    /\ ~ NumberFits(data)
    /\ error' = "AssertionError"
    /\ pc' = "raised"
    /\ UNCHANGED <<outputs, tristate, power, i, cycle_num, locals, mem_controller, log>>

\* One io_w of the transfer
PrwWrite(from, mask, to) ==
    /\ pc = from
    /\ outputs' = mask
    /\ log' = Append(log, io_w(mask))
    /\ pc' = to
    /\ UNCHANGED <<tristate, power, i, cycle_num, locals, error, mem_controller>>

prw_data_high_1 == PrwWrite("prw_w1", DataHighMask(data_pins), "prw_w2")

prw_data_low_1 == PrwWrite("prw_w2", DataLowMask(data_pins), "prw_w3")

prw_data_high_2 == PrwWrite("prw_w3", DataHighMask(data_pins), "prw_w4")

prw_data_low_2 == PrwWrite("prw_w4", DataLowMask(data_pins), "prw_w5")

prw_clock_high == PrwWrite("prw_w5", ClockHighMask, "prw_restore")

\* io_tri(default); return to run: cycle_num += 1; next tick
prw_restore ==
    /\ pc = "prw_restore"
    /\ tristate' = ReadRestoreMask
    /\ log' = Append(log, io_tri(ReadRestoreMask))
    /\ cycle_num' = cycle_num + 1
    /\ pc' = "loop_head"
    /\ UNCHANGED <<outputs, power, i, locals, error, mem_controller>>

Next ==
    \/ init_outputs_low \/ init_tristate \/ init_power
    \/ init_clk_high \/ init_clk_low \/ init_reset_assert
    \/ init_loop_high \/ init_loop_low \/ init_reset_high \/ init_reset_release
    \/ run_enter \/ tick_clock_low \/ tick_sample \/ tick_idle \/ cycle_begin
    \/ cycle_sample \/ decode_read \/ decode_not_read \/ decode_space
    \/ decode_width \/ decode_width_invalid \/ cycle_clock_high
    \/ prw_release \/ prw_query \/ prw_encode \/ prw_encode_fails
    \/ prw_data_high_1 \/ prw_data_low_1 \/ prw_data_high_2 \/ prw_data_low_2
    \/ prw_clock_high \/ prw_restore

Spec == Init /\ [][Next]_vars

(* ------------------------- vocabulary of the claims -------------------- *)

InitPcs == {"new", "init_tri", "init_power", "init_clk_high", "init_clk_low", "init_reset",
            "init_loop", "init_loop_low", "init_release", "constructed"}

\* Control is inside run()
InRun == pc \notin InitPcs

BackendOps == {"read_memory", "read_io", "write_memory", "write_io"}

\* Positions of the log holding a backend call
BackendEvents == {j \in 1..Len(log) : log[j].op \in BackendOps}

TriEvents == {j \in 1..Len(log) : log[j].op = "io_tri"}

Bit(p) == p - 1

AddrDataBits == {Bit(p) : p \in DOMAIN _ADDRESS_PINS}

\* The bits of the 16 pins whose line number is below 16
DataBits16 == {Bit(p) : p \in {q \in DOMAIN _ADDRESS_PINS : _ADDRESS_PINS[q] < 16}}

\* The bits of the pins of the lines 0..15 that are set in v
ValueBits(v) ==
    {Bit(p) : p \in {q \in DOMAIN _ADDRESS_PINS :
                       _ADDRESS_PINS[q] < 16 /\ (v \div 2^(_ADDRESS_PINS[q])) % 2 = 1}}

\* The engine's default Tri-State Set: every pin but the eight always driven
DefaultTriBits ==
    {Bit(p) : p \in (1..160) \ {_PIN_READY, _PIN_INTR, _PIN_TEST, _PIN_NMI, _PIN_RESET,
                                _PIN_CLK, _PIN_MN_MX, _PIN_HOLD}}

ClkHigh(mask) == Bit(_PIN_CLK) \in mask

\* A tick is under way or just over, and its sample is in the log
TickSampled == InRun /\ Len(log) >= 2

\* A bus cycle is under way or just over, and its second sample is in the log
CycleSampled == InRun /\ Len(log) >= 5

(* -------------------------------- C1 ----------------------------------- *)

\* C1: in a tick whose sample has ALE low, no backend operation is invoked
\* and the Tri-State Set is not changed; the adapter calls of the tick are
\* exactly one write with the clock low, one sample and one write with the
\* clock high, after which control is back at the head of the loop.
C1_IdleTick ==
    (TickSampled /\ Bit(_PIN_ALE) \notin log[2].mask) =>
        /\ BackendEvents = {}
        /\ TriEvents = {}
        /\ tristate = DefaultTriBits
        /\ \A j \in 1..Len(log) : log[j].tri = DefaultTriBits
        /\ log[1].op = "io_w" /\ ~ ClkHigh(log[1].mask)
        /\ log[2].op = "io_r"
        /\ Len(log) <= 3
        /\ pc \in {"tick_ale", "loop_head"}
        /\ (pc = "tick_ale") <=> (Len(log) = 2)
        /\ Len(log) = 3 => log[3].op = "io_w" /\ ClkHigh(log[3].mask) /\ outputs = log[3].mask

C1_Witness ==
    /\ pc = "loop_head"
    /\ Len(log) = 3
    /\ Bit(_PIN_ALE) \notin log[2].mask
    /\ cycle_num >= 2

(* -------------------------------- C2 ----------------------------------- *)

\* C2: when ALE is asserted and the second sample of the cycle has the
\* read strobe high and the write strobe low, the direction is decoded as
\* Write, and by the end of the cycle the write operation of the decoded
\* space has been invoked exactly once with the decoded address and the
\* value on the data pins, and no read operation has been invoked.
C2_WriteCycle ==
    (CycleSampled /\ pc # "decode_dir"
        /\ Bit(_PIN_RD) \in log[5].mask /\ Bit(_PIN_WR) \notin log[5].mask) =>
        /\ io_dir = "WRITE"
        /\ error = "none"
        /\ \A j \in BackendEvents :
              /\ log[j].op = (IF Bit(_PIN_M_IO) \in log[5].mask
                              THEN "write_memory" ELSE "write_io")
              /\ AddrToBits(log[j].addr) = log[2].mask \cap AddrDataBits
        /\ pc = "loop_head" => Cardinality(BackendEvents) = 1

(* -------------------------------- C3 ----------------------------------- *)

\* The width the table gives for the cycle in the log
TableWidth ==
    LET bhe == Bit(_PIN_BHE) \in log[5].mask
        a0  == Bit(31) \in log[2].mask
    IN  IF ~bhe /\ ~a0 THEN "WHOLE_WORD"
        ELSE IF ~bhe /\ a0 THEN "UPPER_BYTE"
        ELSE IF bhe /\ ~a0 THEN "LOWER_BYTE"
        ELSE "none"

\* Control is past the backend call of a transfer
PastQuery ==
    \/ pc \in {"prw_encode", "prw_w1", "prw_w2", "prw_w3", "prw_w4", "prw_w5", "prw_restore"}
    \/ pc = "loop_head" /\ Len(log) > 5
    \/ pc = "raised" /\ error = "AssertionError"

\* C3: when ALE is asserted and the read strobe is sampled low (and the
\* width decodes), the read operation of the decoded space is invoked
\* exactly once with the decoded address and width, and each of the adapter
\* writes of the transfer that carry data has exactly those address/data
\* pins high whose line (0..15) is set in the returned value.  With the
\* example's memory a Word read at 0xFFFF0 drives 0x00EA and a LowerByte
\* read at 0x7C00 returns 0x90 and sets pins of AD0..AD7 only.
C3_ReadCycle ==
    (CycleSampled /\ pc # "decode_dir" /\ Bit(_PIN_RD) \notin log[5].mask) =>
        /\ Cardinality(BackendEvents) <= 1
        /\ PastQuery => Cardinality(BackendEvents) = 1
        /\ \A j \in BackendEvents :
              /\ log[j].op = (IF Bit(_PIN_M_IO) \in log[5].mask
                              THEN "read_memory" ELSE "read_io")
              /\ log[j].addr \in 0..(2^20 - 1)
              /\ AddrToBits(log[j].addr) = log[2].mask \cap AddrDataBits
              /\ log[j].width = TableWidth
              /\ \A k \in (j + 1)..Len(log) :
                    /\ log[k].op = "io_w" /\ k <= j + 4
                          => log[k].mask \cap AddrDataBits = ValueBits(log[j].val)
                    /\ log[k].op = "io_w" /\ k > j + 4
                          => log[k].mask \cap AddrDataBits = {}
              /\ pc = "loop_head" =>
                    /\ Len(log) = j + 6
                    /\ \A k \in (j + 1)..(j + 5) : log[k].op = "io_w"
              /\ (mem_controller = "BasicMemController" /\ log[j].op = "read_memory"
                    /\ log[j].addr = 1048560 /\ log[j].width = "WHOLE_WORD")
                    => log[j].val = 234
              /\ (mem_controller = "BasicMemController" /\ log[j].op = "read_memory"
                    /\ log[j].addr = 31744 /\ log[j].width = "LOWER_BYTE")
                    => /\ log[j].val = 144
                       /\ ValueBits(log[j].val) \subseteq {Bit(31), Bit(27), Bit(25), Bit(23),
                                                          Bit(75), Bit(73), Bit(71), Bit(69)}

C3_Witness ==
    /\ pc = "loop_head"
    /\ Len(log) = 14
    /\ mem_controller = "BasicMemController"
    /\ log[8].op = "read_memory"
    /\ log[8].addr = 1048560
    /\ log[8].width = "WHOLE_WORD"
    /\ log[8].val = 234
    /\ log[9].mask \cap AddrDataBits = {Bit(27), Bit(23), Bit(73), Bit(71), Bit(69)}

(* -------------------------------- C4 ----------------------------------- *)

\* The width of the cycle in the log has been decoded
WidthDecoded ==
    /\ CycleSampled
    /\ pc \notin {"decode_dir", "decode_space", "decode_width"}
    /\ error # "AttributeError"

\* C4: once the width of a cycle has been decoded, the outcome is the one
\* of the table for (BHE pin level, address bit 0): (0,0) Word, (0,1)
\* UpperByte, (1,0) LowerByte, and (1,1) stops the run loop with no
\* transfer and no backend operation.
C4_WidthDecode ==
    WidthDecoded =>
        LET bhe == Bit(_PIN_BHE) \in log[5].mask
            a0  == Bit(31) \in log[2].mask
        IN  /\ (~bhe /\ ~a0) => (io_width = "WHOLE_WORD" /\ pc # "returned")
            /\ (~bhe /\ a0) => (io_width = "UPPER_BYTE" /\ pc # "returned")
            /\ (bhe /\ ~a0) => (io_width = "LOWER_BYTE" /\ pc # "returned")
            /\ (bhe /\ a0) =>
                  /\ pc = "returned"
                  /\ BackendEvents = {}
                  /\ TriEvents = {}
                  /\ Len(log) = 5
            /\ pc = "returned" => (bhe /\ a0)

C4_Witness ==
    /\ pc = "returned"
    /\ Bit(_PIN_BHE) \in log[5].mask
    /\ Bit(31) \in log[2].mask
    /\ BackendEvents = {}

(* -------------------------------- C5 ----------------------------------- *)

\* C5: when ALE is asserted and the second sample has both the read strobe
\* and the write strobe low, the run loop is aborted at once as a decode
\* error: no direction is taken and no Read or Write transfer is performed.
C5_BothStrobesLow ==
    (CycleSampled /\ pc # "decode_dir"
        /\ Bit(_PIN_RD) \notin log[5].mask /\ Bit(_PIN_WR) \notin log[5].mask) =>
        /\ pc = "returned"
        /\ BackendEvents = {}
        /\ TriEvents = {}
        /\ Len(log) = 5

(* -------------------------------- C6 ----------------------------------- *)

\* C6: when ALE is asserted and the second sample has both strobes high,
\* the engine reports a decode error and run returns: no backend operation
\* for the cycle, no further adapter write or tick, Tri-State Set at its
\* default.
C6_NeitherStrobeLow ==
    (CycleSampled /\ pc # "decode_dir"
        /\ Bit(_PIN_RD) \in log[5].mask /\ Bit(_PIN_WR) \in log[5].mask) =>
        /\ pc = "returned"
        /\ error = "none"
        /\ BackendEvents = {}
        /\ Len(log) = 5
        /\ tristate = DefaultTriBits

(* -------------------------------- C7 ----------------------------------- *)

\* C7: whenever control is at the head of the run loop (after reset, after
\* an idle tick, after a transfer) the Tri-State Set is the default set:
\* all 20 address/data pins are in it and, of the 160 pins, only READY,
\* INTR, TEST, NMI, RESET, CLK, MN/MX and HOLD are not.
C7_TristateRestored ==
    pc = "loop_head" =>
        /\ tristate = DefaultTriBits
        /\ AddrDataBits \subseteq tristate
        /\ Cardinality(AddrDataBits) = 20
        /\ Cardinality(tristate) = 152

C7_Witness ==
    /\ pc = "loop_head"
    /\ Len(log) = 14
    /\ log[7].op = "io_tri"
    /\ log[7].mask # DefaultTriBits
    /\ log[14].op = "io_tri"

(* -------------------------------- C8 ----------------------------------- *)

C9_ClockHighAfterReset ==
    /\ pc = "constructed" =>
          /\ log[Len(log)].op = "io_w"
          /\ ClkHigh(log[Len(log)].mask)
          /\ ClkHigh(outputs)
    /\ (pc = "loop_head" /\ cycle_num = 0) => ClkHigh(outputs)

C9_Witness ==
    /\ pc = "loop_head"
    /\ cycle_num = 0
    /\ log = <<>>
    /\ ClkHigh(outputs)

(* -------------------------------- C10 ---------------------------------- *)

RstHigh(mask) == Bit(_PIN_RESET) \in mask

\* Positions of the writes of the log
Writes == {j \in 1..Len(log) : log[j].op = "io_w"}

\* The first write that asserts reset
FirstAssert == CHOOSE j \in Writes : RstHigh(log[j].mask) /\ \A k \in Writes : k < j => ~ RstHigh(log[k].mask)

\* The first later write that de-asserts it
FirstRelease ==
    CHOOSE j \in Writes :
        /\ j > FirstAssert /\ ~ RstHigh(log[j].mask)
        /\ \A k \in Writes : (FirstAssert < k /\ k < j) => RstHigh(log[k].mask)

\* The low-to-high clock transitions made with reset asserted before and after
ResetClockRises ==
    {j \in FirstAssert..(FirstRelease - 2) :
        /\ j \in Writes /\ (j + 1) \in Writes
        /\ RstHigh(log[j].mask) /\ RstHigh(log[j + 1].mask)
        /\ ~ ClkHigh(log[j].mask) /\ ClkHigh(log[j + 1].mask)}

\* C10: in the writes of the constructor, between the first write that
\* asserts reset and the first later write that de-asserts it, every write
\* has reset high and the clock makes at least 4 low-to-high transitions
\* (a clock-low write followed by a clock-high write, both with reset high).
C10_ResetHold ==
    pc = "constructed" =>
        /\ \E j \in Writes : RstHigh(log[j].mask)
        /\ \E j \in Writes : j > FirstAssert /\ ~ RstHigh(log[j].mask)
        /\ \A j \in FirstAssert..(FirstRelease - 1) : j \in Writes /\ RstHigh(log[j].mask)
        /\ Cardinality(ResetClockRises) >= 4

C10_Witness ==
    /\ pc = "constructed"
    /\ Cardinality(ResetClockRises) = 6
    /\ FirstRelease = Len(log)

(* -------------------------------- C11 ---------------------------------- *)

\* C11 as stated: after the write that de-asserts reset, the constructor
\* issues at least one further write that changes the clock level before it
\* returns.
C11_ReleaseClockedByReset ==
    pc = "constructed" =>
        \E j \in Writes :
            /\ j > FirstRelease
            /\ ClkHigh(log[j].mask) # ClkHigh(log[j - 1].mask)

\* C11 amended: the write that de-asserts reset is the last adapter call of
\* the constructor; it keeps the clock high, as the write before it, so the
\* constructor makes no clock transition after the release.  The release
\* is clocked in by run, whose first write drives the clock low.
C11_ReleaseClockedByRun ==
    /\ pc = "constructed" =>
          /\ \E j \in Writes : RstHigh(log[j].mask)
          /\ \E j \in Writes : j > FirstAssert /\ ~ RstHigh(log[j].mask)
          /\ FirstRelease = Len(log)
          /\ ClkHigh(log[FirstRelease].mask)
          /\ ClkHigh(log[FirstRelease - 1].mask)
          /\ outputs = log[FirstRelease].mask
    /\ (pc = "tick_sample" /\ cycle_num = 1) =>
          /\ Len(log) = 1
          /\ log[1].op = "io_w"
          /\ ~ ClkHigh(log[1].mask) /\ ~ RstHigh(log[1].mask)

C11_Witness ==
    /\ pc = "tick_sample"
    /\ cycle_num = 1
    /\ ~ ClkHigh(outputs)
    /\ ~ RstHigh(outputs)

(* -------------------------------- C12 ---------------------------------- *)

\* C12: if the backend returns a value above 65535 for a Read transfer, the
\* encoder rejects it before any hardware write of the transfer: no output
\* write carrying data has been made and the Tri-State Set is what it was
\* before the transfer started (the default set).
C12_RejectLeavesNoPinState ==
    (pc = "raised" /\ error = "AssertionError") =>
        /\ \A j \in BackendEvents : \A k \in (j + 1)..Len(log) : log[k].op # "io_w"
        /\ \A k \in Writes : log[k].mask \cap AddrDataBits = {}
        /\ tristate = DefaultTriBits

(* ---------------------- the codec on its own -------------------------- *)
\* _number_to_data_pins_high, _pins, _get_data_pins and _get_address_pins
\* applied to inputs drawn from bounded sets.

RECURSIVE LineSets(_, _)
\* The sets of at most k line numbers below n
LineSets(n, k) ==
    IF k = 0 THEN {{}}
    ELSE LineSets(n, k - 1) \cup {S \cup {b} : S \in LineSets(n, k - 1), b \in 0..(n - 1)}

\* The n-bit numbers with at most MaxBitsVaried bits set or clear
CodecInputs(n) ==
    {SumPow2(S) : S \in LineSets(n, MaxBitsVaried)}
        \cup {(2^n - 1) - SumPow2(S) : S \in LineSets(n, MaxBitsVaried)}

\* Levels of the pins that are not address/data pins
NoiseSets ==
    {{}, _pins({_PIN_ALE, _PIN_RD, _PIN_CLK, _PIN_BHE}),
     {b \in 0..(NumEarthPins - 1) : (b + 1) \notin DOMAIN _ADDRESS_PINS}}

InitCodec ==
    /\ pc \in {"codec_data", "codec_addr"}
    /\ data \in (IF pc = "codec_data" THEN CodecInputs(16) ELSE {0})
    /\ address \in (IF pc = "codec_addr" THEN CodecInputs(20) ELSE {0})
    /\ outputs = {}
    /\ tristate = {}
    /\ power = [volt |-> 0, vdd |-> {}, gnd |-> {}, en |-> FALSE]
    /\ i = 0
    /\ cycle_num = 0
    /\ read_pins = {}
    /\ io_dir = "NONE"
    /\ io_space = "NONE"
    /\ io_width = "NONE"
    /\ data_pins = {}
    /\ error = "none"
    /\ mem_controller = "BasicMemController"
    /\ log = <<>>

codec_rest == <<outputs, tristate, power, i, cycle_num, io_dir, io_space, io_width,
                error, mem_controller>>

\* data_pins = _number_to_data_pins_high(data)
codec_encode ==
    /\ pc = "codec_data"
    /\ NumberFits(data)
    /\ data_pins' = _number_to_data_pins_high(data)
    /\ pc' = "codec_mask"
    /\ UNCHANGED <<codec_rest, data, address, read_pins, log>>

\* _pins(*data_pins)
codec_mask ==
    /\ pc = "codec_mask"
    /\ read_pins' = _pins(data_pins)
    /\ pc' = "codec_decode"
    /\ UNCHANGED <<codec_rest, data, address, data_pins, log>>

\* _get_data_pins(mask)
codec_decode ==
    /\ pc = "codec_decode"
    /\ log' = <<Ev("_get_data_pins", read_pins, 0, "", _get_data_pins(read_pins))>>
    /\ pc' = "codec_data_done"
    /\ UNCHANGED <<codec_rest, data, address, data_pins, read_pins>>

\* A bitmask with exactly the address/data pins of address's set bits high,
\* and any levels on the other pins
codec_addr_mask ==
    /\ pc = "codec_addr"
    /\ \E n \in NoiseSets : read_pins' = AddrToBits(address) \cup n
    /\ pc' = "codec_addr_decode"
    /\ UNCHANGED <<codec_rest, data, address, data_pins, log>>

\* _get_address_pins(mask)
codec_addr_decode ==
    /\ pc = "codec_addr_decode"
    /\ log' = <<Ev("_get_address_pins", read_pins, _get_address_pins(read_pins), "", 0)>>
    /\ pc' = "codec_addr_done"
    /\ UNCHANGED <<codec_rest, data, address, data_pins, read_pins>>

NextCodec ==
    \/ codec_encode \/ codec_mask \/ codec_decode
    \/ codec_addr_mask \/ codec_addr_decode

SpecCodec == InitCodec /\ [][NextCodec]_vars

(* -------------------------------- C13 ---------------------------------- *)

\* C13: for a value v in 0..65535, decoding the bitmask built from the pins
\* the data encoder returns gives v back, and the encoder returns only pins
\* whose line number is below 16.
C13_DataRoundTrip ==
    pc = "codec_data_done" =>
        /\ data \in 0..65535
        /\ log[1].val = data
        /\ \A p \in data_pins : p \in DOMAIN _ADDRESS_PINS /\ _ADDRESS_PINS[p] < 16
        /\ log[1].mask = ValueBits(data)

C13_Witness ==
    /\ pc = "codec_data_done"
    /\ data = 65535 - 256
    /\ log[1].val = data
    /\ Cardinality(data_pins) = 15
    /\ 67 \notin data_pins

(* -------------------------------- C14 ---------------------------------- *)

\* C14: for an address a in 0..0xFFFFF, a bitmask whose address/data pins
\* are high exactly for the set bits of a decodes to a with
\* _get_address_pins, whatever the levels of the other pins.
C14_AddressRoundTrip ==
    pc = "codec_addr_done" =>
        /\ address \in 0..1048575
        /\ log[1].mask \cap AddrDataBits = AddrToBits(address)
        /\ log[1].addr = address

C14_Witness ==
    /\ pc = "codec_addr_done"
    /\ address = 1048575 - 65536
    /\ log[1].addr = address
    /\ Cardinality(log[1].mask \ AddrDataBits) = 140

(* -------------------------------- C15 ---------------------------------- *)

Samples == {j \in 1..Len(log) : log[j].op = "io_r"}

\* The cycle in the log has a direction and a width that decode, and both
\* have been decoded
DecodeSucceeded ==
    /\ CycleSampled
    /\ pc \notin {"decode_dir", "decode_space", "decode_width"}
    /\ Bit(_PIN_RD) \notin log[5].mask
    /\ TableWidth # "none"

\* C15: once a tick has sampled ALE high and direction and width have
\* decoded, the transfer is entered and exactly one backend call is made
\* before control is back at the head of the loop, where the next tick
\* takes its sample; the pins are sampled only twice in the tick (the ALE
\* sample and the re-sample), so ALE is not looked at again, whatever its
\* level in the re-sample, and no second transfer is made.
C15_CycleRunsToCompletion ==
    /\ DecodeSucceeded =>
          /\ pc # "returned"
          /\ error # "AttributeError"
          /\ Bit(_PIN_ALE) \in log[2].mask
          /\ Samples = {2, 5}
          /\ Cardinality(BackendEvents) <= 1
          /\ PastQuery => Cardinality(BackendEvents) = 1
          /\ pc = "loop_head" => Len(log) = 14
    /\ (pc = "loop_head" /\ Len(log) > 3) => (DecodeSucceeded /\ Cardinality(BackendEvents) = 1)
    /\ pc \in {"tick_sample", "tick_ale"} => (BackendEvents = {} /\ Len(log) <= 2)

C15_Witness ==
    /\ pc = "loop_head"
    /\ Len(log) = 14
    /\ Bit(_PIN_ALE) \notin log[5].mask
    /\ Cardinality(BackendEvents) = 1
    /\ cycle_num = 4

(* -------------------------------- C16 ---------------------------------- *)

\* C16: throughout a cycle, the address is the one decoded from the sample
\* in which ALE was seen high: the address given to the backend, and the A0
\* bit of the width decode, are those of that sample, whatever the
\* address/data pins carry in the re-sample of the cycle.
C16_AddressLatched ==
    CycleSampled =>
        /\ AddrToBits(address) = log[2].mask \cap AddrDataBits
        /\ address \in 0..1048575
        /\ \A j \in BackendEvents :
              /\ log[j].addr = address
              /\ AddrToBits(log[j].addr) = log[2].mask \cap AddrDataBits
              /\ log[j].width = TableWidth
        /\ (WidthDecoded /\ pc # "returned") => io_width = TableWidth

C16_Witness ==
    /\ pc = "prw_encode"
    /\ Len(log) = 8
    /\ Bit(31) \notin log[2].mask
    /\ Bit(31) \in log[5].mask
    /\ log[5].mask \cap AddrDataBits # log[2].mask \cap AddrDataBits
    /\ log[8].addr = 1048560
    /\ log[8].width = "WHOLE_WORD"

(* -------------------------------- C17 ---------------------------------- *)

\* C17: in a Read transfer, every adapter write from the first one that
\* carries the encoded value until the Tri-State Set is restored carries
\* the same encoded value: the data pins are not written with anything but
\* the backend's value while they are out of tri-state.
C17_ReadDataHeld ==
    InRun =>
        \A j \in BackendEvents : \A k \in (j + 1)..Len(log) :
            (log[k].op = "io_w" /\ log[k].tri \cap DataBits16 = {})
                => log[k].mask \cap AddrDataBits = ValueBits(log[j].val)

(* -------------------------------- C18 ---------------------------------- *)

\* C18: whenever control is at the head of the run loop the last adapter
\* write has the clock high; the first write of every tick drives the clock
\* low, and the ALE sample of the tick is taken with the clock low.
C18_ClockPhase ==
    /\ pc = "loop_head" =>
          /\ ClkHigh(outputs)
          /\ Len(log) > 0 =>
                /\ Writes # {}
                /\ \A j \in Writes : (\A k \in Writes : k <= j) =>
                      (ClkHigh(log[j].mask) /\ log[j].mask = outputs)
    /\ (InRun /\ Len(log) >= 1) => (log[1].op = "io_w" /\ ~ ClkHigh(log[1].mask))
    /\ pc = "tick_sample" => (Len(log) = 1 /\ ~ ClkHigh(outputs))
    /\ TickSampled => (log[2].op = "io_r" /\ ~ ClkHigh(log[2].mask))

C18_Witness ==
    /\ pc = "tick_ale"
    /\ cycle_num = 5
    /\ ~ ClkHigh(outputs)
    /\ ~ ClkHigh(log[2].mask)

(* -------------------------------- C19 ---------------------------------- *)

\* C19: no adapter write sets a pin high that is in the Tri-State Set in
\* force at that write; a write sets data pins high only while the Tri-State
\* Set is the one of the release of a Read transfer, which is the default
\* set less exactly the 16 data pins; the pins A16..A19 are never set high
\* and never taken out of tri-state.
C19_NoDriveAgainstTristate ==
    /\ \A j \in Writes :
          /\ log[j].mask \cap log[j].tri = {}
          /\ log[j].mask \cap (AddrDataBits \ DataBits16) = {}
          /\ log[j].mask \cap DataBits16 # {} =>
                /\ InRun
                /\ log[j].tri = DefaultTriBits \ DataBits16
                /\ j >= 9 /\ j <= 12
                /\ log[7].op = "io_tri" /\ log[7].mask = DefaultTriBits \ DataBits16
    /\ outputs \cap tristate = {}
    /\ \A t \in TriEvents : log[t].mask \in {DefaultTriBits, DefaultTriBits \ DataBits16}
    /\ tristate \in {{}, DefaultTriBits, DefaultTriBits \ DataBits16}
    /\ (pc = "loop_head" /\ Len(log) = 14) =>
          (log[14].op = "io_tri" /\ log[14].mask = DefaultTriBits)

C19_Witness ==
    /\ pc = "loop_head"
    /\ Len(log) = 14
    /\ log[8].val = 65535
    /\ DataBits16 \subseteq log[9].mask
    /\ log[9].tri \cap DataBits16 = {}

(* -------------------------------- C20 ---------------------------------- *)

\* C20: in every adapter write issued after the constructor has returned
\* (in a tick or in a Read transfer) MN/MX and READY are high and RESET is
\* low.
C20_ControlPinLevels ==
    InRun =>
        /\ \A j \in Writes :
              /\ Bit(_PIN_MN_MX) \in log[j].mask
              /\ Bit(_PIN_READY) \in log[j].mask
              /\ Bit(_PIN_RESET) \notin log[j].mask
        /\ Bit(_PIN_MN_MX) \in outputs
        /\ Bit(_PIN_READY) \in outputs
        /\ Bit(_PIN_RESET) \notin outputs

C20_Witness ==
    /\ pc = "loop_head"
    /\ Len(log) = 14
    /\ log[8].op = "read_io"
    /\ log[8].val = 4660
    /\ Cardinality(Writes) = 9

====
